---- MODULE Spec2Model ----
(***************************************************************************)
(* react-blessed: the blessed component (ReactBlessedComponent.js) and the *)
(* reconcile transaction (ReactBlessedReconcileTransaction).               *)
(*                                                                         *)
(* A reconciliation pass (a top-level render, an update, an unmount) runs  *)
(* to completion without yielding, so each pass is one action.  The        *)
(* effect of a pass is computed by operators that thread a record `s' of   *)
(* the mutable program state through the calls the code makes, in the      *)
(* order it makes them.  A thrown exception is the field s.err: once it is *)
(* set every later step of the pass is skipped.                            *)
(***************************************************************************)
EXTENDS Integers, Sequences, FiniteSets, TLC

VARIABLES
  inst,          \* component instances: _currentElement, _rootNodeID, _renderedChildren
  blessedNodes,  \* ReactBlessedIDOperations registry: node ID -> blessed node
  widgets,       \* blessed nodes created so far: type, options, listeners, parent
  kids,          \* blessed node (or screen) -> its children, in attach order
  nextId,        \* the next component instance
  nextNode,      \* the next blessed node
  top,           \* the root component instance (0: none)
  vtree,         \* the virtual element of the last completed render/update pass
  renderPending, \* the debounce timer of screen.debouncedRender is armed
  pendingPasses, \* passes that armed the timer since it last fired (2: two or more)
  dirty,         \* the widget tree changed since the last physical redraw
  painted,       \* physical redraws (screen.render) performed by the last step
  txPool,        \* pooled ReactBlessedReconcileTransaction objects, with their fields
  cqPool,        \* pooled CallbackQueue objects, with their callbacks
  log,           \* calls made by the last operation, in order
  enqueued,      \* callbacks enqueued on the last pass's reactMountReady queue
  notified,      \* callbacks invoked by the last pass
  fired,         \* handlers invoked by the last emitted event
  lastOp         \* the last operation: its kind, target, result

vars == <<inst, blessedNodes, widgets, kids, nextId, nextNode, top, vtree, renderPending,
          pendingPasses, dirty, painted, txPool, cqPool, log, enqueued, notified, fired, lastOp>>

----------------------------------------------------------------------------
(* Bounds of the model *)

\* component instances created in one behaviour
MaxInstances == 4

----------------------------------------------------------------------------
(* Values *)

\* the screen: the parent of the root node
SCREEN == 0
\* this._rootNodeID = null
NullID == << >>
\* the widget kinds of blessed the elements are given: blessed[type] is a
\* function that returns a node
BlessedTypes == {"box", "list"}
\* the members blessed, a function, inherits from Object.prototype and from
\* Function.prototype whose value is truthy (length is 0; arguments and
\* caller are null): none of them is a widget kind
ObjectMembers ==
  {"constructor", "toString", "toLocaleString", "valueOf", "hasOwnProperty",
   "isPrototypeOf", "propertyIsEnumerable", "__defineGetter__",
   "__defineSetter__", "__lookupGetter__", "__lookupSetter__", "__proto__"}
FunctionMembers == {"call", "apply", "bind", "name", "prototype"}
InheritedMembers == ObjectMembers \cup FunctionMembers
\* !!blessed[type]
blessedElement(type) == type \in BlessedTypes \cup InheritedMembers
\* what blessed[type](options) and node.onAny throw for an inherited member:
\* blessed.constructor is Function, and Function(options) compiles the text
\* "[object Object]"; every other member is not callable, throws a
\* TypeError itself, or returns a value that has no onAny
memberError(type) ==
  IF type = "constructor" THEN "SyntaxError" ELSE "TypeError"
\* functions usable as event handlers
Handlers == {"h1", "h2"}
\* events a blessed node emits
Events == {"click", "element click", "key é"}
\* keys of child elements
Keys == {"a", "b", "c"}

OK == "ok"

\* the characters of a string
LowerCase == "abcdefghijklmnopqrstuvwxyz"
UpperCase == "ABCDEFGHIJKLMNOPQRSTUVWXYZ"
Digits == "0123456789"

At(str, i) == SubSeq(str, i, i)

In(c, alphabet) == \E i \in 1..Len(alphabet) : At(alphabet, i) = c

IsLower(str, i) == i <= Len(str) /\ In(At(str, i), LowerCase)
IsUpper(str, i) == i <= Len(str) /\ In(At(str, i), UpperCase)
IsDigit(str, i) == i <= Len(str) /\ In(At(str, i), Digits)

\* charAt(0).toUpperCase() + slice(1)
upperFirst(word) ==
  IF IsLower(word, 1)
    THEN At(UpperCase, CHOOSE i \in 1..Len(LowerCase) : At(LowerCase, i) = At(word, 1))
         \o SubSeq(word, 2, Len(word))
    ELSE word

\* the end of the run of lower-case letters, of upper-case letters, of
\* digits, that starts at i (i - 1: no such run)
RECURSIVE lowerRun(_, _)
lowerRun(str, i) == IF IsLower(str, i) THEN lowerRun(str, i + 1) ELSE i - 1

RECURSIVE upperRun(_, _)
upperRun(str, i) == IF IsUpper(str, i) THEN upperRun(str, i + 1) ELSE i - 1

RECURSIVE digitRun(_, _)
digitRun(str, i) == IF IsDigit(str, i) THEN digitRun(str, i + 1) ELSE i - 1

\* the end of the word lodash finds at i (i - 1: none), by the alternatives
\* of its pattern, in order:
\*   [A-Z]+(?=[A-Z][a-z]+) | [A-Z]?[a-z]+ | [A-Z]+ | [0-9]+
wordEnd(str, i) ==
  IF IsUpper(str, i) /\ upperRun(str, i) > i /\ IsLower(str, upperRun(str, i) + 1)
    THEN upperRun(str, i) - 1
  ELSE IF IsUpper(str, i) /\ IsLower(str, i + 1) THEN lowerRun(str, i + 1)
  ELSE IF IsLower(str, i) THEN lowerRun(str, i)
  ELSE IF IsUpper(str, i) THEN upperRun(str, i)
  ELSE digitRun(str, i)

\* the words of a string from i on
RECURSIVE words(_, _)
words(str, i) ==
  IF i > Len(str) THEN << >>
  ELSE IF wordEnd(str, i) < i THEN words(str, i + 1)
  ELSE <<SubSeq(str, i, wordEnd(str, i))>> \o words(str, wordEnd(str, i) + 1)

RECURSIVE joinWords(_, _)
joinWords(ws, i) ==
  IF i > Len(ws) THEN ""
  ELSE (IF i > 1 THEN " " ELSE "") \o upperFirst(ws[i]) \o joinWords(ws, i + 1)

\* the Latin-1 letters and the basic Latin letters deburr puts for them
deburredLetters ==
  [c \in {"À", "Á", "Â", "Ã", "Ä", "Å"} |-> "A"] @@
  [c \in {"à", "á", "â", "ã", "ä", "å"} |-> "a"] @@
  [c \in {"Ç"} |-> "C"] @@
  [c \in {"ç"} |-> "c"] @@
  [c \in {"Ð"} |-> "D"] @@
  [c \in {"ð"} |-> "d"] @@
  [c \in {"È", "É", "Ê", "Ë"} |-> "E"] @@
  [c \in {"è", "é", "ê", "ë"} |-> "e"] @@
  [c \in {"Ì", "Í", "Î", "Ï"} |-> "I"] @@
  [c \in {"ì", "í", "î", "ï"} |-> "i"] @@
  [c \in {"Ñ"} |-> "N"] @@
  [c \in {"ñ"} |-> "n"] @@
  [c \in {"Ò", "Ó", "Ô", "Õ", "Ö", "Ø"} |-> "O"] @@
  [c \in {"ò", "ó", "ô", "õ", "ö", "ø"} |-> "o"] @@
  [c \in {"Ù", "Ú", "Û", "Ü"} |-> "U"] @@
  [c \in {"ù", "ú", "û", "ü"} |-> "u"] @@
  [c \in {"Ý"} |-> "Y"] @@
  [c \in {"ý", "ÿ"} |-> "y"] @@
  [c \in {"Æ"} |-> "Ae"] @@
  [c \in {"æ"} |-> "ae"] @@
  [c \in {"Þ"} |-> "Th"] @@
  [c \in {"þ"} |-> "th"] @@
  [c \in {"ß"} |-> "ss"]

\* the text k stands in str at i
StartsAt(str, i, k) ==
  i + Len(k) - 1 <= Len(str) /\ SubSeq(str, i, i + Len(k) - 1) = k

\* deburr from i on: string.replace(reLatin1, deburrLetter); the combining
\* marks it removes next (U+0300 and above) are characters no string of a
\* module can hold
RECURSIVE deburrFrom(_, _)
deburrFrom(str, i) ==
  IF i > Len(str) THEN ""
  ELSE IF \E k \in DOMAIN deburredLetters : StartsAt(str, i, k)
    THEN LET k == CHOOSE c \in DOMAIN deburredLetters : StartsAt(str, i, c)
         IN deburredLetters[k] \o deburrFrom(str, i + Len(k))
  ELSE At(str, i) \o deburrFrom(str, i + 1)

deburr(str) == deburrFrom(str, 1)

\* lodash startCase (lodash 3, the major version of the time of React
\* 0.14): the words of the deburred string, each with its first letter in
\* upper case, joined by single spaces
startCase(type) == joinWords(words(deburr(type), 1), 1)

\* the {children, ...options} destructuring of props
Options(props) == [k \in DOMAIN props \ {"children"} |-> props[k]]

\* the values a children prop takes: an array, a single element, or a value
\* that is falsy (null, false, 0, ""); `is' tells which
Falsy == {"null", "false", "zero", "empty"}

\* [].concat(props.children || []): the array's items, the single element
\* in a list of its own, nothing for a falsy or an absent prop
childrenToUse(props) ==
  IF "children" \notin DOMAIN props THEN << >>
  ELSE IF props.children.is \in Falsy THEN << >>
  ELSE props.children.items

\* solveClass: the `class' prop (an option object) merged under the other options
solveClass(options) ==
  IF "class" \in DOMAIN options
    THEN LET rest == DOMAIN options \ {"class"}
         IN [k \in rest \cup DOMAIN options.class |->
               IF k \in rest THEN options[k] ELSE options.class[k]]
    ELSE options

----------------------------------------------------------------------------
(* The state a pass works on *)

Throw(s, e, who) ==
  [s EXCEPT !.err = e, !.log = Append(@, <<"throw", e, who>>)]

Logged(s, entry) == [s EXCEPT !.log = Append(@, entry)]

\* F applied to the value of v
Strict(v, F(_)) == CHOOSE r \in {F(x) : x \in {v}} : TRUE

\* the step F on the state s, unless s already holds a thrown error
Then(s, F(_)) ==
  CHOOSE r \in {(IF x.err = OK THEN F(x) ELSE x) : x \in {s}} : TRUE

----------------------------------------------------------------------------
(* ReactBlessedIDOperations: the registry of blessed nodes *)

\* get(ID) of an ID the registry does not hold fails with UnknownNode
has(s, id) == id \in DOMAIN s.blessedNodes

get(s, id) == s.blessedNodes[id]

\* the parent of the root ID is the screen; of any other ID, the node
\* registered under the ID without its last segment
parentID(id) == SubSeq(id, 1, Len(id) - 1)

hasParent(s, id) ==
  /\ id # NullID
  /\ Len(id) = 1 \/ has(s, parentID(id))

getParent(s, id) == IF Len(id) = 1 THEN SCREEN ELSE get(s, parentID(id))

add(s, id, node) ==
  Logged([s EXCEPT !.blessedNodes = (id :> node) @@ @], <<"add", id, node>>)

drop(s, id) ==
  Logged([s EXCEPT !.blessedNodes = [i \in DOMAIN @ \ {id} |-> @[i]]],
         <<"drop", id>>)

\* screen.debouncedRender(): arms (or re-arms) the debounce timer
debouncedRender(s) ==
  Logged([s EXCEPT !.renderPending = TRUE], <<"debouncedRender">>)

\* screen.render(): the physical redraw
screenRender(s) ==
  Logged([s EXCEPT !.painted = @ + 1, !.dirty = FALSE, !.renderPending = FALSE],
         <<"render">>)

----------------------------------------------------------------------------
(* blessed: the widget library *)

\* blessed[type](options): a new node, s.nextNode, with no parent, no
\* children and no listeners; `by' is the instance that created it
createWidget(s, by, type, options) ==
  Logged([s EXCEPT
            !.widgets = (s.nextNode :> [type |-> type, options |-> options,
                                        listeners |-> << >>, parent |-> -1,
                                        by |-> by]) @@ @,
            !.kids = (s.nextNode :> << >>) @@ @,
            !.nextNode = @ + 1],
         <<"create", s.nextNode>>)

\* node.onAny(dispatcher): the dispatcher is a closure over the instance `this'
onAny(s, node, this) ==
  Logged([s EXCEPT !.widgets[node].listeners = Append(@, this)],
         <<"onAny", node>>)

\* node.offAny()
offAny(s, node) ==
  Logged([s EXCEPT !.widgets[node].listeners = << >>], <<"offAny", node>>)

\* parent.append(node): node becomes the last child of parent
append(s, parent, node) ==
  Logged([s EXCEPT !.kids[parent] = Append(@, node),
                   !.widgets[node].parent = parent,
                   !.dirty = TRUE],
         <<"append", parent, node>>)

Without(seq, x) == SelectSeq(seq, LAMBDA y : y # x)

\* parent.remove(node): nothing when node is not a child of parent
remove(s, parent, node) ==
  IF s.widgets[node].parent # parent
    THEN Logged(s, <<"remove", parent, node>>)
    ELSE Logged([s EXCEPT !.kids[parent] = Without(@, node),
                          !.widgets[node].parent = -1,
                          !.dirty = TRUE],
                <<"remove", parent, node>>)

\* update(node, options): applies the options to the live node
update(s, node, options) ==
  Logged([s EXCEPT !.widgets[node].options = options, !.dirty = TRUE],
         <<"applyOptions", node>>)

----------------------------------------------------------------------------
(* ReactBlessedReconcileTransaction *)

\* CallbackQueue.getPooled(null): a pooled queue when there is one, else a
\* new one; either way its constructor runs and leaves it no callbacks
CallbackQueue_getPooled(pool) ==
  [queue |-> [callbacks |-> << >>],
   pool |-> IF pool = << >> THEN pool ELSE SubSeq(pool, 1, Len(pool) - 1)]

\* CallbackQueue.release(queue): the queue is reset and pooled
CallbackQueue_release(pool, queue) ==
  Append(pool, [queue EXCEPT !.callbacks = << >>])

\* the constructor, run on a new or on a pooled transaction object:
\* this.reactMountReady = CallbackQueue.getPooled(null)
ReactBlessedReconcileTransaction(instance, queues) ==
  [tx |-> [instance EXCEPT !.reactMountReady = <<CallbackQueue_getPooled(queues).queue>>],
   cqPool |-> CallbackQueue_getPooled(queues).pool]

\* ReactBlessedReconcileTransaction.getPooled(): PooledClass pops a pooled
\* object when there is one and calls the constructor on it
getPooled(transactions, queues) ==
  [tx |-> ReactBlessedReconcileTransaction(
            IF transactions = << >> THEN [reactMountReady |-> << >>]
            ELSE transactions[Len(transactions)], queues).tx,
   reused |-> IF transactions = << >> THEN "new" ELSE "pooled",
   txPool |-> IF transactions = << >> THEN transactions
              ELSE SubSeq(transactions, 1, Len(transactions) - 1),
   cqPool |-> ReactBlessedReconcileTransaction(
                [reactMountReady |-> << >>], queues).cqPool]

\* Mixin.getReactMountReady
getReactMountReady(tx) == tx.reactMountReady[1]

\* a destructor that leaves the queue, with its callbacks, on the transaction
destructor_keepQueue(tx, queues) ==
  [tx |-> tx, cqPool |-> queues]

\* Mixin.destructor: the queue is released and the field set to null
destructor(tx, queues) ==
  [tx |-> [tx EXCEPT !.reactMountReady = << >>],
   cqPool |-> CallbackQueue_release(queues, getReactMountReady(tx))]

\* ReactBlessedReconcileTransaction.release(tx): PooledClass runs the
\* destructor and pools the object
release(transactions, queues, tx) ==
  [txPool |-> Append(transactions, destructor(tx, queues).tx),
   cqPool |-> destructor(tx, queues).cqPool]

\* Mixin.getTransactionWrappers
getTransactionWrappers == << >>

\* what a method is handed as its transaction or its context: the pass's
\* transaction, the context object, or nothing
TX == "transaction"
CTX == "context"
UNDEFINED == "undefined"

\* transaction.getReactMountReady().enqueue(callback, context), called in
\* a method of `by': only the transaction has a getReactMountReady
enqueue(s, transaction, callback, by) ==
  IF transaction = TX
    THEN [s EXCEPT !.queue = Append(@, callback)]
    ELSE Throw(s, "TypeError", by)

\* Transaction.closeAll over the wrappers: a wrapper that queues for mount-ready
\* notifies the whole queue, in order, when the pass closes
closeAll(wrappers, queue) ==
  IF \E i \in DOMAIN wrappers : wrappers[i] = "ON_READY_QUEUEING"
    THEN queue ELSE << >>

----------------------------------------------------------------------------
(* ReactBlessedComponent, with the ReactMultiChild mixin *)

RECURSIVE mountComponent(_, _, _, _, _)
RECURSIVE mountEach(_, _, _, _, _, _)
RECURSIVE receiveComponent(_, _, _, _, _, _)
RECURSIVE unmountComponent(_, _)
RECURSIVE unmountEach(_, _, _)
RECURSIVE reconcileEach(_, _, _, _, _, _, _, _)
RECURSIVE mountNewEach(_, _, _, _, _, _, _)
RECURSIVE constructAll(_, _, _)

\* new ReactBlessedComponent(tag) and construct(element): the new instance
\* is s.nextId
construct(s, element) ==
  [s EXCEPT !.inst = (s.nextId :> [currentElement |-> element,
                                   rootNodeID |-> NullID,
                                   renderedChildren |-> << >>]) @@ @,
            !.nextId = @ + 1]

\* mountNode attaching the node as the first child of its parent
mountNode_prepend(s, this, parent, element) ==
  IF ~blessedElement(element.type)
    THEN Throw(s, "UnknownWidgetType", this)
  ELSE IF element.type \in InheritedMembers
    THEN Throw(s, "TypeError", this)
    ELSE Then(onAny(createWidget(s, this, element.type,
                                 solveClass(Options(element.props))),
                    s.nextNode, this), LAMBDA s1 :
           Logged([s1 EXCEPT !.kids[parent] = <<s.nextNode>> \o @,
                             !.widgets[s.nextNode].parent = parent,
                             !.dirty = TRUE],
                  <<"append", parent, s.nextNode>>))

\* mountNode(parent, element): the node it returns is s.nextNode; an
\* inherited member passes the invariant and gives no node: the call of it,
\* or of the onAny of what it returns, throws
mountNode(s, this, parent, element) ==
  IF ~blessedElement(element.type)
    THEN Throw(s, "UnknownWidgetType", this)
  ELSE IF element.type \in InheritedMembers
    THEN Throw(s, memberError(element.type), this)
    ELSE append(onAny(createWidget(s, this, element.type,
                                   solveClass(Options(element.props))),
                      s.nextNode, this),
                parent, s.nextNode)

\* ReactReconciler.mountComponent(child, rootID, transaction, context),
\* called in a method of `by': mounts, then queues the ref attachment on
\* the transaction it was handed
reconcilerMount(s, by, child, rootID, transaction, context) ==
  Then(mountComponent(s, child, rootID, transaction, context), LAMBDA s1 :
    IF "ref" \in DOMAIN s1.inst[child].currentElement
      THEN enqueue(s1, transaction, <<"attachRefs", child>>, by)
      ELSE s1)

mountEach(s, this, children, i, transaction, context) ==
  IF i > Len(children) THEN s
  ELSE Then(reconcilerMount(s, this, children[i].child,
                            Append(s.inst[this].rootNodeID, children[i].name),
                            transaction, context),
            LAMBDA s1 : mountEach(s1, this, children, i + 1, transaction, context))

constructAll(s, elements, i) ==
  IF i > Len(elements) THEN s
  ELSE Then(construct(s, elements[i]),
            LAMBDA s1 : constructAll(s1, elements, i + 1))

\* ReactMultiChild.mountChildren: instantiates every child, records them as
\* the rendered children, then mounts each under this ID + its name
mountChildren(s, this, nestedChildren, transaction, context) ==
  Strict([i \in 1..Len(nestedChildren) |->
            [name |-> nestedChildren[i].key, child |-> s.nextId + i - 1]],
         LAMBDA children :
    Then(constructAll(s, nestedChildren, 1), LAMBDA s1 :
      mountEach([s1 EXCEPT !.inst[this].renderedChildren = children],
                this, children, 1, transaction, context)))

\* mountComponent registering its node only after its children are mounted
mountComponent_addLast(s, this, rootID, transaction, context) ==
  Then(Logged([s EXCEPT !.inst[this].rootNodeID = rootID],
              <<"mountComponent", this>>), LAMBDA s1 :
    IF ~hasParent(s1, rootID) THEN Throw(s1, "UnknownNode", this) ELSE
    Then(mountNode(s1, this, getParent(s1, rootID),
                   s1.inst[this].currentElement), LAMBDA s2 :
    Then(mountChildren(s2, this,
                       childrenToUse(s2.inst[this].currentElement.props),
                       transaction, context),
         LAMBDA s3 :
    Then(add(s3, rootID, s1.nextNode), LAMBDA s4 :
      debouncedRender(s4)))))

\* mountComponent calling screen.render() where it calls debouncedRender
mountComponent_syncRender(s, this, rootID, transaction, context) ==
  Then(Logged([s EXCEPT !.inst[this].rootNodeID = rootID],
              <<"mountComponent", this>>), LAMBDA s1 :
    IF ~hasParent(s1, rootID) THEN Throw(s1, "UnknownNode", this) ELSE
    Then(mountNode(s1, this, getParent(s1, rootID),
                   s1.inst[this].currentElement), LAMBDA s2 :
    Then(add(s2, rootID, s1.nextNode), LAMBDA s3 :
    Then(mountChildren(s3, this,
                       childrenToUse(s3.inst[this].currentElement.props),
                       transaction, context),
         LAMBDA s4 :
      screenRender(s4)))))

mountComponent(s, this, rootID, transaction, context) ==
  Then(Logged([s EXCEPT !.inst[this].rootNodeID = rootID],
              <<"mountComponent", this>>), LAMBDA s1 :
    IF ~hasParent(s1, rootID) THEN Throw(s1, "UnknownNode", this) ELSE
    Then(mountNode(s1, this, getParent(s1, rootID),
                   s1.inst[this].currentElement), LAMBDA s2 :
    Then(add(s2, rootID, s1.nextNode), LAMBDA s3 :
    Then(mountChildren(s3, this,
                       childrenToUse(s3.inst[this].currentElement.props),
                       transaction, context),
         LAMBDA s4 :
      debouncedRender(s4)))))

\* ReactReconciler.unmountComponent
reconcilerUnmount(s, child) == unmountComponent(s, child)

unmountEach(s, children, i) ==
  IF i > Len(children) THEN s
  ELSE Then(reconcilerUnmount(s, children[i].child),
            LAMBDA s1 : unmountEach(s1, children, i + 1))

\* ReactMultiChild.unmountChildren
unmountChildren(s, this) ==
  Then(unmountEach(s, s.inst[this].renderedChildren, 1), LAMBDA s1 :
    [s1 EXCEPT !.inst[this].renderedChildren = << >>])

\* unmountComponent without this.unmountChildren()
unmountComponent_keepChildren(s, this) ==
  Then(Logged(s, <<"unmountComponent", this>>), LAMBDA s1 :
    IF ~hasParent(s1, s1.inst[this].rootNodeID) \/ ~has(s1, s1.inst[this].rootNodeID)
      THEN Throw(s1, "UnknownNode", this)
      ELSE Strict(s1.inst[this].rootNodeID, LAMBDA id :
           Strict(getParent(s1, id), LAMBDA parent :
           Strict(get(s1, id), LAMBDA node :
             Then(drop(remove(offAny(s1, node), parent, node), id), LAMBDA s2 :
               [s2 EXCEPT !.inst[this].rootNodeID = NullID])))))

\* unmountComponent without parent.remove(node)
unmountComponent_noRemove(s, this) ==
  Then(Logged(s, <<"unmountComponent", this>>), LAMBDA s0 :
  Then(unmountChildren(s0, this), LAMBDA s1 :
    IF ~hasParent(s1, s1.inst[this].rootNodeID) \/ ~has(s1, s1.inst[this].rootNodeID)
      THEN Throw(s1, "UnknownNode", this)
      ELSE Strict(s1.inst[this].rootNodeID, LAMBDA id :
           Strict(get(s1, id), LAMBDA node :
             Then(drop(offAny(s1, node), id), LAMBDA s2 :
               [s2 EXCEPT !.inst[this].rootNodeID = NullID])))))

\* unmountComponent without the drop of its registry entry
unmountComponent_noDrop(s, this) ==
  Then(Logged(s, <<"unmountComponent", this>>), LAMBDA s0 :
  Then(unmountChildren(s0, this), LAMBDA s1 :
    IF ~hasParent(s1, s1.inst[this].rootNodeID) \/ ~has(s1, s1.inst[this].rootNodeID)
      THEN Throw(s1, "UnknownNode", this)
      ELSE Strict(s1.inst[this].rootNodeID, LAMBDA id :
           Strict(getParent(s1, id), LAMBDA parent :
           Strict(get(s1, id), LAMBDA node :
             Then(remove(offAny(s1, node), parent, node), LAMBDA s2 :
               [s2 EXCEPT !.inst[this].rootNodeID = NullID]))))))

unmountComponent(s, this) ==
  Then(Logged(s, <<"unmountComponent", this>>), LAMBDA s0 :
  Then(unmountChildren(s0, this), LAMBDA s1 :
    IF ~hasParent(s1, s1.inst[this].rootNodeID) \/ ~has(s1, s1.inst[this].rootNodeID)
      THEN Throw(s1, "UnknownNode", this)
      ELSE Strict(s1.inst[this].rootNodeID, LAMBDA id :
           Strict(getParent(s1, id), LAMBDA parent :
           Strict(get(s1, id), LAMBDA node :
             Then(drop(remove(offAny(s1, node), parent, node), id), LAMBDA s2 :
               [s2 EXCEPT !.inst[this].rootNodeID = NullID]))))))

\* shouldUpdateReactComponent: same type and same key
shouldUpdate(prevElement, nextElement) ==
  prevElement.type = nextElement.type /\ prevElement.key = nextElement.key

RefOf(element) == IF "ref" \in DOMAIN element THEN element.ref ELSE "none"

\* ReactReconciler.receiveComponent(child, nextElement, transaction,
\* context), called in a method of `by': it calls
\* child.receiveComponent(nextElement, transaction, context), three
\* arguments for the four parameters (nextElement, prevElement, transaction,
\* context); then it queues the ref attachment, when the ref differs from the
\* one of the child's current element and that element has one
reconcilerReceive(s, by, child, nextElement, transaction, context) ==
  Then(receiveComponent(s, child, nextElement, transaction, context, UNDEFINED),
       LAMBDA s1 :
    IF /\ RefOf(s.inst[child].currentElement) # RefOf(nextElement)
       /\ "ref" \in DOMAIN s1.inst[child].currentElement
      THEN enqueue(s1, transaction, <<"attachRefs", child>>, by)
      ELSE s1)

\* the instance rendered under a name (0: none)
childNamed(children, name) ==
  IF \E i \in DOMAIN children : children[i].name = name
    THEN children[CHOOSE i \in DOMAIN children : children[i].name = name].child
    ELSE 0

\* ReactChildReconciler.updateChildren, first loop: a child of the same name,
\* type and key receives the next element; any other is unmounted and a new
\* instance takes its name.  The result: the state and the next children.
reconcileEach(s, this, prev, next, i, acc, transaction, context) ==
  IF s.err # OK \/ i > Len(next) THEN [st |-> s, ch |-> acc]
  ELSE Strict(childNamed(prev, next[i].key), LAMBDA prevChild :
    IF prevChild # 0 /\ shouldUpdate(s.inst[prevChild].currentElement, next[i])
      THEN Strict(reconcilerReceive(s, this, prevChild, next[i], transaction, context),
                  LAMBDA s1 :
             reconcileEach(s1, this, prev, next, i + 1,
                           Append(acc, [name |-> next[i].key, child |-> prevChild]),
                           transaction, context))
      ELSE Strict(IF prevChild # 0 THEN reconcilerUnmount(s, prevChild) ELSE s,
                  LAMBDA s1 :
             IF s1.err # OK THEN [st |-> s1, ch |-> acc]
             ELSE Strict(construct(s1, next[i]), LAMBDA s2 :
                    reconcileEach(s2, this, prev, next, i + 1,
                                  Append(acc, [name |-> next[i].key,
                                               child |-> s1.nextId]),
                                  transaction, context))))

\* ReactChildReconciler.updateChildren, second loop: the children whose name
\* is not among the next children are unmounted
removedChildren(prev, next) ==
  SelectSeq(prev, LAMBDA c : \A i \in DOMAIN next : next[i].key # c.name)

\* ReactMultiChild._updateChildren loop: a kept child is moved (an entry in
\* the update queue, which no delegate of this renderer applies), a new one
\* is mounted under this ID + its name
mountNewEach(s, this, prev, children, i, transaction, context) ==
  IF i > Len(children) THEN s
  ELSE IF childNamed(prev, children[i].name) = children[i].child
    THEN mountNewEach(s, this, prev, children, i + 1, transaction, context)
    ELSE Then(reconcilerMount(s, this, children[i].child,
                              Append(s.inst[this].rootNodeID, children[i].name),
                              transaction, context),
              LAMBDA s1 : mountNewEach(s1, this, prev, children, i + 1,
                                       transaction, context))

\* ReactMultiChild.updateChildren
updateChildren(s, this, nextNestedChildren, transaction, context) ==
  Strict(s.inst[this].renderedChildren, LAMBDA prev :
  Strict(reconcileEach(s, this, prev, nextNestedChildren, 1, << >>,
                       transaction, context), LAMBDA r :
    Then(r.st, LAMBDA s0 :
    Then(unmountEach(s0, removedChildren(prev, nextNestedChildren), 1), LAMBDA s1 :
      mountNewEach([s1 EXCEPT !.inst[this].renderedChildren = r.ch],
                   this, prev, r.ch, 1, transaction, context)))))

\* receiveComponent requesting the redraw before it updates its children
receiveComponent_renderFirst(s, this, nextElement, prevElement, transaction, context) ==
  Then(Logged(s, <<"receiveComponent", this>>), LAMBDA s0 :
    IF ~has(s0, s0.inst[this].rootNodeID) THEN Throw(s0, "UnknownNode", this) ELSE
    Then(update(s0, get(s0, s0.inst[this].rootNodeID),
                solveClass(Options(nextElement.props))), LAMBDA s1 :
    Then(debouncedRender(s1), LAMBDA s2 :
      updateChildren(s2, this, childrenToUse(nextElement.props),
                        transaction, context))))

\* receiveComponent attaching a dispatcher again at every update
receiveComponent_rebind(s, this, nextElement, prevElement, transaction, context) ==
  Then(Logged(s, <<"receiveComponent", this>>), LAMBDA s0 :
    IF ~has(s0, s0.inst[this].rootNodeID) THEN Throw(s0, "UnknownNode", this) ELSE
    Then(onAny(update(s0, get(s0, s0.inst[this].rootNodeID),
                      solveClass(Options(nextElement.props))),
               get(s0, s0.inst[this].rootNodeID), this), LAMBDA s1 :
    Then(updateChildren(s1, this, childrenToUse(nextElement.props),
                        transaction, context), LAMBDA s2 :
      debouncedRender(s2))))

\* receiveComponent building a new node for the next element and registering
\* it under the same ID, where it updates the node it has
receiveComponent_remount(s, this, nextElement, prevElement, transaction, context) ==
  Then(Logged(s, <<"receiveComponent", this>>), LAMBDA s0 :
    IF ~has(s0, s0.inst[this].rootNodeID) THEN Throw(s0, "UnknownNode", this) ELSE
    Then(mountNode(s0, this, getParent(s0, s0.inst[this].rootNodeID), nextElement),
         LAMBDA s1 :
    Then(add(s1, s0.inst[this].rootNodeID, s0.nextNode), LAMBDA s2 :
    Then(updateChildren(s2, this, childrenToUse(nextElement.props),
                        transaction, context), LAMBDA s3 :
      debouncedRender(s3)))))

receiveComponent(s, this, nextElement, prevElement, transaction, context) ==
  Then(Logged(s, <<"receiveComponent", this>>), LAMBDA s0 :
    IF ~has(s0, s0.inst[this].rootNodeID) THEN Throw(s0, "UnknownNode", this) ELSE
    Then(update(s0, get(s0, s0.inst[this].rootNodeID),
                solveClass(Options(nextElement.props))), LAMBDA s1 :
    Then(updateChildren(s1, this, childrenToUse(nextElement.props),
                        transaction, context), LAMBDA s2 :
      debouncedRender(s2))))

\* getPublicInstance that answers for a missing entry with no node instead
\* of failing
getPublicInstance_silent(s, this) ==
  IF has(s, s.inst[this].rootNodeID)
    THEN [err |-> OK, value |-> get(s, s.inst[this].rootNodeID)]
    ELSE [err |-> OK, value |-> 0]

\* getPublicInstance: the node registered under this._rootNodeID
getPublicInstance(s, this) ==
  IF has(s, s.inst[this].rootNodeID)
    THEN [err |-> OK, value |-> get(s, s.inst[this].rootNodeID)]
    ELSE [err |-> "UnknownNode", value |-> 0]

----------------------------------------------------------------------------
(* The virtual elements the passes are given *)

Props1 ==
  ("onElement Click" :> "h1") @@ ("onKey E" :> "h2")
    @@ [width |-> 10, onClick |-> "h1"]
Props2 == [width |-> 20, onClick |-> "h2"]

\* a childless element with a ref: its props have no children entry
Leaf(type, key, props) ==
  [type |-> type, key |-> key, ref |-> "r", props |-> props]

\* an element whose children prop is an array
Node(type, key, props, children) ==
  [type |-> type, key |-> key, ref |-> "r",
   props |-> [children |-> [is |-> "list", items |-> children]] @@ props]

\* an element with exactly one child: its children prop is that element
Single(type, key, props, child) ==
  [type |-> type, key |-> key, ref |-> "r",
   props |-> [children |-> [is |-> "element", items |-> <<child>>]] @@ props]

\* an element whose children prop is false
Childless(type, key, props) ==
  [type |-> type, key |-> key, ref |-> "r",
   props |-> [children |-> [is |-> "false", items |-> << >>]] @@ props]

\* a childless box with no ref
Box(key) == [type |-> "box", key |-> key, props |-> Props1]

\* child lists of boxes with no ref: insertions, removals and reorderings
\* of one another
PlainLists ==
  { <<Box("a"), Box("b")>>,
    <<Box("a"), Box("b"), Box("c")>>, <<Box("c"), Box("a"), Box("b")>> }

\* child lists with a child of an unknown type, a child of another type,
\* a child with a ref and other props, a child with a child of its own
\* (without and with a ref)
SpecialLists ==
  { <<Box("a"), Leaf("nosuch", "b", Props1)>>,
    <<[type |-> "list", key |-> "a", props |-> Props1]>>,
    <<Leaf("box", "a", Props2), Box("b")>>,
    <<Node("box", "a", Props1, <<Box("a")>>)>>,
    <<Node("box", "a", Props1, <<Leaf("box", "a", Props1)>>)>>,
    <<Node("box", "a", Props1, <<Leaf("nosuch", "a", Props1)>>), Box("b")>> }

\* the root elements: with a ref and an array of children, with a single
\* child, with children false, with no ref and other props, and of types
\* that are members blessed inherits
Trees ==
  {Node("box", "root", Props1, c) : c \in PlainLists \cup SpecialLists}
  \cup {Single("box", "root", Props1, Box("a")),
        Childless("box", "root", Props1),
        [type |-> "box", key |-> "root",
         props |-> [children |-> [is |-> "list", items |-> <<Box("a"), Box("b")>>]]
                   @@ Props2],
        Leaf("toString", "root", Props1),
        Leaf("constructor", "root", Props1)}

NoElement == [type |-> "none", key |-> "none", props |-> [width |-> 0]]

----------------------------------------------------------------------------
(* Passes *)

PassState ==
  [inst |-> inst, blessedNodes |-> blessedNodes, widgets |-> widgets,
   kids |-> kids, nextId |-> nextId, nextNode |-> nextNode,
   renderPending |-> renderPending,
   dirty |-> dirty, painted |-> 0, log |-> << >>, queue |-> << >>, err |-> OK]

Store(s) ==
  /\ s.nextId <= MaxInstances + 1
  /\ inst' = s.inst
  /\ blessedNodes' = s.blessedNodes
  /\ widgets' = s.widgets
  /\ kids' = s.kids
  /\ nextId' = s.nextId
  /\ nextNode' = s.nextNode
  /\ renderPending' = s.renderPending
  /\ dirty' = s.dirty
  /\ painted' = s.painted
  /\ log' = s.log

\* the state a pass in a transaction starts from: the callbacks the pass
\* finds on the transaction's queue are s.queue
Begin(a) ==
  [PassState EXCEPT
     !.queue = getReactMountReady(a.tx).callbacks,
     !.log = << <<"getPooled", getReactMountReady(a.tx).callbacks, a.reused>> >>]

\* transaction.perform(method) between getPooled and release: the wrappers
\* close the pass, then the transaction is released; a pass that throws
\* never releases, and its transaction is pooled no more
Transact(a, s) ==
  /\ pendingPasses' =
       IF \E i \in DOMAIN s.log : s.log[i] = <<"debouncedRender">>
         THEN (IF pendingPasses < 2 THEN pendingPasses + 1 ELSE 2)
         ELSE pendingPasses
  /\ enqueued' = s.queue
  /\ notified' = closeAll(getTransactionWrappers, s.queue)
  /\ \E r \in {IF s.err = OK
                 THEN release(a.txPool, a.cqPool,
                              [a.tx EXCEPT !.reactMountReady[1].callbacks = s.queue])
                 ELSE [txPool |-> a.txPool, cqPool |-> a.cqPool]} :
        /\ txPool' = r.txPool
        /\ cqPool' = r.cqPool

NoTransact ==
  /\ enqueued' = << >>
  /\ notified' = << >>
  /\ UNCHANGED <<txPool, cqPool>>

\* outside a pass nothing arms the timer
NoPass == NoTransact /\ UNCHANGED pendingPasses

\* render(element, screen): a new root component mounted under a fresh root ID
Render(tree) ==
  /\ top = 0
  /\ \E this \in {nextId} :
     \E a \in {getPooled(txPool, cqPool)} :
     \E s \in {reconcilerMount(construct(Begin(a), tree), 0, this,
                               <<ToString(this)>>, TX, CTX)} :
        /\ Store(s)
        /\ Transact(a, s)
        /\ top' = IF s.err = OK THEN this ELSE 0
        /\ lastOp' = [kind |-> "mount", target |-> this, err |-> s.err, value |-> 0, arg |-> ""]
        /\ vtree' = IF s.err = OK THEN tree ELSE NoElement
  /\ fired' = << >>

\* an update of the root component with the next element
Update(tree) ==
  /\ top # 0
  /\ shouldUpdate(inst[top].currentElement, tree)
  /\ \E a \in {getPooled(txPool, cqPool)} :
     \E s \in {reconcilerReceive(Begin(a), 0, top, tree, TX, CTX)} :
        /\ Store(s)
        /\ Transact(a, s)
        /\ lastOp' = [kind |-> "update", target |-> top, err |-> s.err, value |-> 0, arg |-> ""]
        /\ vtree' = IF s.err = OK THEN tree ELSE vtree
  /\ fired' = << >>
  /\ UNCHANGED top

\* the root component unmounted
Unmount ==
  /\ top # 0
  /\ \E s \in {reconcilerUnmount(PassState, top)} :
        /\ Store(s)
        /\ lastOp' = [kind |-> "unmount", target |-> top, err |-> s.err, value |-> 0, arg |-> ""]
        /\ top' = IF s.err = OK THEN 0 ELSE top
        /\ vtree' = IF s.err = OK THEN NoElement ELSE vtree
  /\ NoPass
  /\ fired' = << >>

\* an instance that created its node and was unmounted since
Unmounted(i) ==
  /\ i \in DOMAIN inst
  /\ \E node \in DOMAIN widgets : widgets[node].by = i
  /\ inst[i].rootNodeID = NullID

\* a caller keeps using a component it has unmounted
StaleGet(i) ==
  /\ Unmounted(i)
  /\ \E r \in {getPublicInstance(PassState, i)} :
        lastOp' = [kind |-> "staleGet", target |-> i, err |-> r.err, value |-> r.value, arg |-> ""]
  /\ log' = << >>
  /\ painted' = 0
  /\ fired' = << >>
  /\ NoPass
  /\ UNCHANGED <<inst, blessedNodes, widgets, kids, nextId, nextNode, top,
                 vtree, renderPending, dirty>>

StaleUpdate(i, element) ==
  /\ Unmounted(i)
  /\ \E s \in {receiveComponent(PassState, i, element, TX, CTX, UNDEFINED)} :
        /\ Store(s)
        /\ lastOp' = [kind |-> "staleUpdate", target |-> i, err |-> s.err, value |-> 0, arg |-> ""]
  /\ fired' = << >>
  /\ NoPass
  /\ UNCHANGED <<top, vtree>>

StaleUnmount(i) ==
  /\ Unmounted(i)
  /\ \E s \in {unmountComponent(PassState, i)} :
        /\ Store(s)
        /\ lastOp' = [kind |-> "staleUnmount", target |-> i, err |-> s.err, value |-> 0, arg |-> ""]
  /\ fired' = << >>
  /\ NoPass
  /\ UNCHANGED <<top, vtree>>

\* the dispatcher mountNode attaches: the handler under on<Type> in the
\* props of the instance's current element, when it is a function
dispatch(this, type) ==
  LET props == inst[this].currentElement.props
      key == "on" \o startCase(type)
  IN IF key \in DOMAIN props /\ props[key] \in Handlers
       THEN <<props[key]>> ELSE << >>

RECURSIVE dispatchAll(_, _, _)
dispatchAll(listeners, type, i) ==
  IF i > Len(listeners) THEN << >>
  ELSE dispatch(listeners[i], type) \o dispatchAll(listeners, type, i + 1)

\* a blessed node emits an event: every listener attached with onAny runs
Emit(node, type) ==
  /\ node \in DOMAIN widgets
  /\ fired' = dispatchAll(widgets[node].listeners, type, 1)
  /\ lastOp' = [kind |-> "emit", target |-> node, err |-> OK, value |-> 0, arg |-> type]
  /\ log' = << >>
  /\ painted' = 0
  /\ NoPass
  /\ UNCHANGED <<inst, blessedNodes, widgets, kids, nextId, nextNode, top,
                 vtree, renderPending, dirty>>

\* the debounce timer fires: one screen.render() for all the calls since;
\* lastOp.value tells how many passes had armed it
Tick ==
  /\ renderPending
  /\ \E s \in {screenRender(PassState)} : Store(s)
  /\ lastOp' = [kind |-> "tick", target |-> 0, err |-> OK,
                value |-> pendingPasses, arg |-> ""]
  /\ fired' = << >>
  /\ NoTransact
  /\ pendingPasses' = 0
  /\ UNCHANGED <<top, vtree>>

Init ==
  /\ inst = << >>
  /\ blessedNodes = << >>
  /\ widgets = << >>
  /\ kids = (SCREEN :> << >>)
  /\ nextId = 1
  /\ nextNode = 1
  /\ top = 0
  /\ vtree = NoElement
  /\ renderPending = FALSE
  /\ pendingPasses = 0
  /\ dirty = FALSE
  /\ painted = 0
  /\ txPool = << >>
  /\ cqPool = << >>
  /\ log = << >>
  /\ enqueued = << >>
  /\ notified = << >>
  /\ fired = << >>
  /\ lastOp = [kind |-> "init", target |-> 0, err |-> OK, value |-> 0, arg |-> ""]

\* the passes alone: renders, updates and unmounts of the root, over Trees
Next ==
  \/ \E tree \in Trees : Render(tree)
  \/ \E tree \in Trees : Update(tree)
  \/ Unmount

Spec == Init /\ [][Next]_vars

\* the passes over fewer trees, with the debounce timer, the events the
\* nodes emit and a caller that keeps using components it has unmounted
UseTrees ==
  { Node("box", "root", Props1, <<Box("a")>>),
    Node("box", "root", Props2, <<Box("a"), Box("b")>>),
    Node("box", "root", Props1, <<Leaf("box", "a", Props2), Box("b")>>),
    Node("box", "root", Props1, <<Leaf("list", "a", Props1)>>),
    Leaf("nosuch", "root", Props1) }

NextUse ==
  \/ \E tree \in UseTrees : Render(tree)
  \/ \E tree \in UseTrees : Update(tree)
  \/ Unmount
  \/ \E i \in 1..MaxInstances : StaleGet(i)
  \/ \E i \in 1..MaxInstances : StaleUpdate(i, Leaf("box", "a", Props2))
  \/ \E i \in 1..MaxInstances : StaleUnmount(i)
  \/ \E node \in 1..MaxInstances, type \in Events : Emit(node, type)
  \/ Tick

SpecUse == Init /\ [][NextUse]_vars

----------------------------------------------------------------------------
(* What the claims speak of *)

\* the last step was a render or update pass that ran to its end
Completed == lastOp.kind \in {"mount", "update"} /\ lastOp.err = OK

\* calls of one kind in a log
Count(l, op) == Cardinality({i \in DOMAIN l : l[i][1] = op})

\* the keys of an element's children, in order
ChildKeys(element) ==
  [i \in DOMAIN childrenToUse(element.props) |-> childrenToUse(element.props)[i].key]

\* the IDs of an element mounted under id, and of all elements beneath it
RECURSIVE ElementIDs(_, _)
ElementIDs(element, id) ==
  {id} \cup UNION {ElementIDs(childrenToUse(element.props)[i],
                              Append(id, childrenToUse(element.props)[i].key))
                   : i \in DOMAIN childrenToUse(element.props)}

\* the registered IDs at or beneath id
RegisteredUnder(nodes, id) ==
  {j \in DOMAIN nodes : Len(j) >= Len(id) /\ SubSeq(j, 1, Len(id)) = id}

\* the nodes attached under the node registered for id are, in order, the
\* nodes registered for the element's children; and so on beneath
RECURSIVE Isomorphic(_, _)
Isomorphic(element, id) ==
  /\ id \in DOMAIN blessedNodes
  /\ \A i \in DOMAIN ChildKeys(element) :
       Append(id, ChildKeys(element)[i]) \in DOMAIN blessedNodes
  /\ Len(kids[blessedNodes[id]]) = Len(ChildKeys(element))
  /\ \A i \in DOMAIN ChildKeys(element) :
       /\ kids[blessedNodes[id]][i] = blessedNodes[Append(id, ChildKeys(element)[i])]
       /\ Isomorphic(childrenToUse(element.props)[i], Append(id, ChildKeys(element)[i]))

\* the element of a tree at a path of keys
RECURSIVE HasPath(_, _)
HasPath(element, path) ==
  \/ path = << >>
  \/ \E i \in DOMAIN ChildKeys(element) :
       /\ ChildKeys(element)[i] = Head(path)
       /\ HasPath(childrenToUse(element.props)[i], Tail(path))

RECURSIVE ElementAt(_, _)
ElementAt(element, path) ==
  IF path = << >> THEN element
  ELSE ElementAt(childrenToUse(element.props)
                   [CHOOSE i \in DOMAIN ChildKeys(element) :
                      ChildKeys(element)[i] = Head(path)],
                 Tail(path))

\* the handlers an event of a type must invoke, by the props of an element
HandlersOf(element, type) ==
  IF /\ ("on" \o startCase(type)) \in DOMAIN element.props
     /\ element.props["on" \o startCase(type)] \in Handlers
    THEN <<element.props["on" \o startCase(type)]>>
    ELSE << >>

\* the ID a node is registered under (NullID: none)
IDOf(node) ==
  IF \E id \in DOMAIN blessedNodes : blessedNodes[id] = node
    THEN CHOOSE id \in DOMAIN blessedNodes : blessedNodes[id] = node
    ELSE NullID

----------------------------------------------------------------------------
(* Claims *)

\* C1: after any completed reconciliation pass the ordered children attached
\* under each mounted node are the nodes of the virtual element's children, in
\* the element's order, and the registry holds exactly the IDs of the tree.
C1_StructuralIsomorphism ==
  Completed =>
    /\ Isomorphic(vtree, inst[top].rootNodeID)
    /\ RegisteredUnder(blessedNodes, inst[top].rootNodeID)
         = ElementIDs(vtree, inst[top].rootNodeID)

\* C2: an event emitted by the node of a mounted component invokes the handler
\* found under on<Event> in the props of the element the component was last
\* updated with.
C2_HandlerFollowsUpdate ==
  ( /\ lastOp.kind = "emit"
    /\ top # 0
    /\ IDOf(lastOp.target) # NullID
    /\ IDOf(lastOp.target)[1] = inst[top].rootNodeID[1]
    /\ HasPath(vtree, Tail(IDOf(lastOp.target))) )
  => fired = HandlersOf(ElementAt(vtree, Tail(IDOf(lastOp.target))), lastOp.arg)

\* C3: a completed pass that mounts or updates N >= 1 components sends
\* exactly one redraw request (debouncedRender) to the screen, whatever N.
C3_SingleRedrawRequest ==
  Completed => Count(log, "debouncedRender") = 1

\* C4: every callback enqueued on the pass's mount-ready queue is invoked
\* exactly once when the pass commits, in the order it was enqueued.
C4_CallbacksFlushedInOrder ==
  Completed => notified = enqueued

\* what a reorder of [a, b, c] to [c, a, b] must do, as a step
C5_Reorder ==
  ( /\ top # 0
    /\ lastOp'.kind = "update" /\ lastOp'.err = OK
    /\ ChildKeys(vtree) = <<"a", "b", "c">>
    /\ ChildKeys(vtree') = <<"c", "a", "b">>
    /\ Isomorphic(vtree, inst[top].rootNodeID) )
  => /\ kids'[blessedNodes[inst[top].rootNodeID]]
          = << blessedNodes[Append(inst[top].rootNodeID, "c")],
               blessedNodes[Append(inst[top].rootNodeID, "a")],
               blessedNodes[Append(inst[top].rootNodeID, "b")] >>
     /\ blessedNodes' = blessedNodes
     /\ Count(log', "create") + Count(log', "add") + Count(log', "drop") = 0

\* C5: an update of a parent whose children are [a, b, c], attached in that
\* order, to [c, a, b] leaves the nodes attached in the order [c, a, b], and
\* creates, registers and drops no node.
C5_ReorderWithoutRemount == [][C5_Reorder]_vars

\* the instances that received an element in the step's pass
Received(l) == {l[i][2] : i \in {j \in DOMAIN l : l[j][1] = "receiveComponent"}}

\* what an update must keep for every component that receives an element
C6_Update ==
  \A this \in Received(log') :
    (this \in DOMAIN inst /\ inst[this].rootNodeID \in DOMAIN blessedNodes) =>
      /\ inst'[this].rootNodeID = inst[this].rootNodeID
      /\ inst[this].rootNodeID \in DOMAIN blessedNodes'
      /\ blessedNodes'[inst[this].rootNodeID] = blessedNodes[inst[this].rootNodeID]
      /\ widgets[blessedNodes[inst[this].rootNodeID]].by = this
      /\ \E i \in DOMAIN log' :
           log'[i] = <<"applyOptions", blessedNodes[inst[this].rootNodeID]>>
      /\ \A i \in DOMAIN log' :
           /\ log'[i][1] = "create" => widgets'[log'[i][2]].by # this
           /\ log'[i][1] = "add" => log'[i][2] # inst[this].rootNodeID

\* C6: a mounted component that receives an update keeps its node ID, the
\* registry keeps the node stored for that ID at mount, the new options are
\* applied to that node, and the update creates no node for the component and
\* registers nothing under its ID.
C6_IdentityStable == [][C6_Update]_vars

\* the root, mounted with width 10, received an element with width 20 (the
\* instance still holds the element of its mount): the node registered at
\* mount now has the new options
C6_Witness ==
  /\ Completed /\ lastOp.kind = "update"
  /\ inst[top].currentElement.props.width = 10
  /\ widgets[blessedNodes[inst[top].rootNodeID]].options.width = 20
  /\ widgets[blessedNodes[inst[top].rootNodeID]].by = top
  /\ Count(log, "receiveComponent") >= 2

\* what a completed unmount of the root must leave, as a step
C7_Unmount ==
  (top # 0 /\ lastOp'.kind = "unmount" /\ lastOp'.err = OK) =>
    \A id \in RegisteredUnder(blessedNodes, inst[top].rootNodeID) :
      /\ id \notin DOMAIN blessedNodes'
      /\ widgets'[blessedNodes[id]].parent = -1
      /\ \A p \in DOMAIN kids' :
           \A i \in DOMAIN kids'[p] : kids'[p][i] # blessedNodes[id]

\* C7: an unmount of the root that runs to its end leaves no registry entry
\* at or beneath the root ID, and none of the tree's nodes attached to the
\* parent it was appended to.
C7_MountUnmountInverse == [][C7_Unmount]_vars

\* a tree with children and a grandchild was mounted and its root unmounted
C7_Witness ==
  /\ lastOp.kind = "unmount" /\ lastOp.err = OK
  /\ Count(log, "drop") >= 3
  /\ DOMAIN blessedNodes = {}
  /\ kids[SCREEN] = << >>
  /\ \A n \in DOMAIN widgets : inst[widgets[n].by].rootNodeID = NullID

\* C8: the mount of an element whose type is no widget kind of blessed fails
\* with UnknownWidgetType at once: that mountComponent call creates no node,
\* appends nothing, attaches no dispatcher and adds no registry entry.
C8_UnknownTypeContained ==
  /\ \A i \in DOMAIN log :
       ( /\ log[i][1] = "mountComponent"
         /\ inst[log[i][2]].currentElement.type \notin BlessedTypes )
       => /\ i + 1 = Len(log)
          /\ log[i + 1] = <<"throw", "UnknownWidgetType", log[i][2]>>
          /\ lastOp.err = "UnknownWidgetType"
          /\ \A n \in DOMAIN widgets : widgets[n].by # log[i][2]
          /\ inst[log[i][2]].rootNodeID \notin DOMAIN blessedNodes
  /\ lastOp.err = "UnknownWidgetType" =>
       /\ Len(log) >= 2
       /\ log[Len(log) - 1][1] = "mountComponent"
       /\ log[Len(log)][3] = log[Len(log) - 1][2]

\* what a use of an unmounted component must do, as a step
C9_StaleUse ==
  lastOp'.kind \in {"staleGet", "staleUpdate", "staleUnmount"} =>
    /\ lastOp'.err = "UnknownNode"
    /\ lastOp'.value = 0
    /\ blessedNodes' = blessedNodes
    /\ widgets' = widgets
    /\ kids' = kids
    /\ \A i \in DOMAIN log' : log'[i][1] \in {"throw", "receiveComponent", "unmountComponent"}

\* C9: getPublicInstance, receiveComponent and unmountComponent on an
\* unmounted component each fail with UnknownNode, return no node, and leave
\* the registry and the widget tree as they were.
C9_UseAfterUnmountFails == [][C9_StaleUse]_vars

\* a child removed by an update is used while the rest of the tree is mounted
C9_Witness ==
  /\ lastOp.kind \in {"staleGet", "staleUpdate", "staleUnmount"}
  /\ lastOp.err = "UnknownNode"
  /\ top # 0
  /\ DOMAIN blessedNodes # {}
  /\ \E n \in DOMAIN widgets : widgets[n].by = lastOp.target

\* what each step must do about the redraw
C10_Step ==
  /\ lastOp'.kind # "tick" => painted' = 0 /\ Count(log', "render") = 0
  /\ (lastOp'.kind \in {"mount", "update"} /\ Count(log', "debouncedRender") > 0)
       => renderPending'
  /\ (renderPending /\ lastOp'.kind = "tick") =>
       painted' = 1 /\ ~dirty' /\ ~renderPending' /\ pendingPasses' = 0
  /\ (renderPending /\ lastOp'.kind # "tick") => renderPending'
  /\ painted' > 0 => renderPending

\* C10: no pass redraws the screen itself; the redraw is done by the timer,
\* once for all the passes that requested it since the last one, and after it
\* nothing of those passes is left unpainted.
C10_DebouncedRedraw == [][C10_Step]_vars

\* the timer fired after two or more passes had requested a redraw
C10_Witness ==
  /\ lastOp.kind = "tick"
  /\ lastOp.value = 2
  /\ painted = 1
  /\ ~dirty
  /\ Count(log, "render") = 1

\* C11: right after the initial mount of a tree, the nodes attached under the
\* node of every element are the nodes of the element's children, in the
\* element's order; an element with no children prop has no node attached
\* under its node.
C11_InitialMountOrder ==
  (lastOp.kind = "mount" /\ lastOp.err = OK) =>
    /\ Isomorphic(vtree, inst[top].rootNodeID)
    /\ \A id \in RegisteredUnder(blessedNodes, inst[top].rootNodeID) :
         "children" \notin DOMAIN ElementAt(vtree, Tail(id)).props
           => kids[blessedNodes[id]] = << >>

\* a tree of a root with three children, none of which has a children prop,
\* was mounted
C11_Witness ==
  /\ lastOp.kind = "mount" /\ lastOp.err = OK
  /\ Len(ChildKeys(vtree)) = 3
  /\ Len(kids[blessedNodes[inst[top].rootNodeID]]) = 3
  /\ "children" \notin DOMAIN ElementAt(vtree, <<"a">>).props

\* the last step was a render or update pass aborted by an unknown type
Aborted ==
  lastOp.kind \in {"mount", "update"} /\ lastOp.err = "UnknownWidgetType"

\* changes of the widget tree among the calls of a log
Mutations(l) ==
  {i \in DOMAIN l : l[i][1] \in {"append", "remove", "applyOptions"}}

\* C12: after a pass aborted by UnknownWidgetType every node the pass
\* attached is still attached and every registry entry it added is still
\* there, and the pass requested a redraw if and only if it had changed the
\* widget tree before the failure.
C12_AbortedPassKeepsAndPaints ==
  Aborted =>
    /\ \A i \in DOMAIN log :
         /\ log[i][1] = "append" =>
              /\ widgets[log[i][3]].parent = log[i][2]
              /\ \E k \in DOMAIN kids[log[i][2]] : kids[log[i][2]][k] = log[i][3]
         /\ log[i][1] = "add" =>
              /\ log[i][2] \in DOMAIN blessedNodes
              /\ blessedNodes[log[i][2]] = log[i][3]
    /\ (Count(log, "debouncedRender") > 0) <=> (Mutations(log) # {})

\* the IDs registered after the first k calls of a log, from the IDs
\* registered before it
RECURSIVE Replay(_, _, _)
Replay(ids, l, k) ==
  IF k = 0 THEN ids
  ELSE IF l[k][1] = "add" THEN Replay(ids, l, k - 1) \cup {l[k][2]}
  ELSE IF l[k][1] = "drop" THEN Replay(ids, l, k - 1) \ {l[k][2]}
  ELSE Replay(ids, l, k - 1)

\* every registered ID but a root ID has its parent ID registered
Closed(ids) == \A id \in ids : Len(id) > 1 => parentID(id) \in ids

\* the parent lookup of an ID finds an entry
ParentIn(id, ids) == id # NullID /\ (Len(id) = 1 \/ parentID(id) \in ids)

\* the instances rendered at or beneath an instance
RECURSIVE Rendered(_)
Rendered(i) ==
  {i} \cup UNION {Rendered(inst[i].renderedChildren[k].child)
                   : k \in DOMAIN inst[i].renderedChildren}

\* the pass is given mounted components only: every component rendered at or
\* beneath the root has its node registered (no earlier pass was aborted
\* half-way through them)
WellSequenced ==
  top # 0 => \A i \in Rendered(top) : inst[i].rootNodeID \in DOMAIN blessedNodes

\* what a pass must keep after each of its calls
C13_Step ==
  lastOp'.kind \in {"mount", "update", "unmount"} =>
    /\ \A k \in 0..Len(log') : Closed(Replay(DOMAIN blessedNodes, log', k))
    /\ \A k \in 1..Len(log') :
         log'[k][1] = "mountComponent" =>
           ParentIn(inst'[log'[k][2]].rootNodeID,
                    Replay(DOMAIN blessedNodes, log', k))
    /\ WellSequenced =>
         \A k \in 1..Len(log') :
           ~(log'[k][1] = "throw" /\ log'[k][2] = "UnknownNode")

\* C13: after every call of a render, update or unmount pass each registered
\* ID but a root ID has its parent ID registered: a node is added before its
\* children are mounted and dropped after its descendants are, and no lookup
\* of a pass over mounted components misses its entry.
C13_RegistryTreeAtEveryCall == [][C13_Step]_vars

\* a tree with a grandchild was unmounted: three drops, the deepest first
C13_Witness ==
  /\ lastOp.kind = "unmount" /\ lastOp.err = OK
  /\ \E i, j, k \in DOMAIN log :
       /\ i < j /\ j < k
       /\ log[i][1] = "drop" /\ Len(log[i][2]) = 3
       /\ log[j][1] = "drop" /\ Len(log[j][2]) = 2
       /\ log[k][1] = "drop" /\ Len(log[k][2]) = 1

\* the instances a log has a call of a method for
Called(l, method) == {l[k][2] : k \in {j \in DOMAIN l : l[j][1] = method}}

\* the IDs of the components that created their node and were not unmounted
LiveIDs(ins, ws) ==
  {ins[i].rootNodeID :
     i \in {j \in DOMAIN ins : /\ ins[j].rootNodeID # NullID
                                /\ \E n \in DOMAIN ws : ws[n].by = j}}

\* what a pass does to the registry
C14_Step ==
  lastOp'.kind \in {"mount", "update", "unmount"} =>
    /\ \A this \in Called(log', "mountComponent") :
         Cardinality({k \in DOMAIN log' : /\ log'[k][1] = "add"
                                          /\ widgets'[log'[k][3]].by = this})
           = (IF \E n \in DOMAIN widgets' : widgets'[n].by = this THEN 1 ELSE 0)
    /\ lastOp'.err = OK =>
         Count(log', "add") = Count(log', "mountComponent")
    /\ \A this \in Called(log', "unmountComponent") :
         inst[this].rootNodeID \in DOMAIN blessedNodes =>
           Cardinality({k \in DOMAIN log' :
                          log'[k] = <<"drop", inst[this].rootNodeID>>})
             = (IF inst'[this].rootNodeID = NullID THEN 1 ELSE 0)
    /\ Count(log', "drop") <= Count(log', "unmountComponent")
    /\ \A this \in Called(log', "receiveComponent") :
         \A k \in DOMAIN log' :
           log'[k][1] \in {"add", "drop"} => log'[k][2] # inst[this].rootNodeID
    /\ DOMAIN blessedNodes' = LiveIDs(inst', widgets')

\* C14: in every pass the registry's add is called once for each component
\* whose mount created a node and its drop once for each mounted component
\* whose unmount runs to its end, neither for the ID of a component that
\* receives an update; the registered IDs are the IDs of the components
\* that were mounted and not unmounted since.
C14_AddDropBalance == [][C14_Step]_vars

\* an update that unmounted a child and mounted another in its place, while
\* the root received the update
C14_Witness ==
  /\ lastOp.kind = "update" /\ lastOp.err = OK
  /\ Count(log, "add") >= 1
  /\ Count(log, "drop") >= 1
  /\ Count(log, "receiveComponent") >= 1
  /\ DOMAIN blessedNodes = LiveIDs(inst, widgets)

\* C15: every transaction a pass acquires, new or pooled, starts with a queue
\* that holds no callback; the callbacks a pass sees and invokes are those
\* of the components it mounted or updated itself; a pooled transaction
\* holds no queue and a pooled queue no callback.
C15_QueueScopedToPass ==
  /\ \A k \in DOMAIN log : log[k][1] = "getPooled" => log[k][2] = << >>
  /\ \A j \in DOMAIN enqueued :
       enqueued[j][2] \in Called(log, "mountComponent")
                             \cup Called(log, "receiveComponent")
  /\ \A j \in DOMAIN notified : \E i \in DOMAIN enqueued : enqueued[i] = notified[j]
  /\ \A i \in DOMAIN txPool : txPool[i].reactMountReady = << >>
  /\ \A i \in DOMAIN cqPool : cqPool[i].callbacks = << >>

\* a pass ran in a transaction taken from the pool, to which an earlier pass
\* that had enqueued callbacks released it, and enqueued callbacks of its own
C15_Witness ==
  /\ lastOp.kind = "update" /\ lastOp.err = OK
  /\ log[1] = <<"getPooled", << >>, "pooled">>
  /\ Len(enqueued) >= 1
  /\ Len(txPool) = 1 /\ Len(cqPool) = 1

\* C16: a node has one dispatcher attached, that of the component that
\* created it, while it is registered, and none once its component is
\* unmounted, whatever updates were made in between; so an event a node
\* emits invokes at most one handler, and none after the unmount.
C16_OneDispatcherWhileMounted ==
  /\ \A n \in DOMAIN widgets :
       widgets[n].listeners =
         IF IDOf(n) # NullID THEN <<widgets[n].by>> ELSE << >>
  /\ lastOp.kind = "emit" =>
       /\ Len(fired) <= 1
       /\ IDOf(lastOp.target) = NullID => fired = << >>

\* a node whose component had a click handler and was unmounted emitted a
\* click, while another node, updated since its mount, is still registered
C16_Witness ==
  /\ lastOp.kind = "emit"
  /\ IDOf(lastOp.target) = NullID
  /\ inst[widgets[lastOp.target].by].currentElement.props.onClick \in Handlers
  /\ fired = << >>
  /\ \E n \in DOMAIN widgets :
       /\ IDOf(n) # NullID
       /\ widgets[n].options.width = 20
       /\ inst[widgets[n].by].currentElement.props.width = 10
       /\ Len(widgets[n].listeners) = 1

\* the calls of a log made to the widget library: to blessed nodes and to
\* the screen
LibraryCalls(l) ==
  {k \in DOMAIN l : l[k][1] \in {"create", "onAny", "offAny", "append", "remove",
                                  "applyOptions", "debouncedRender", "render"}}

\* C17: in a render or update pass that runs to its end the last call to the
\* widget library is a redraw request: no node is created, attached,
\* detached or given options after the last debouncedRender of the pass.
C17_RedrawRequestedLast ==
  Completed =>
    /\ LibraryCalls(log) # {}
    /\ \A k \in LibraryCalls(log) :
         (\A j \in LibraryCalls(log) : j <= k) => log[k] = <<"debouncedRender">>

\* an update that gave options to kept components, unmounted a removed
\* child and mounted a new one, each with a redraw request of its own
C17_Witness ==
  /\ lastOp.kind = "update" /\ lastOp.err = OK
  /\ Count(log, "remove") >= 1
  /\ Count(log, "create") >= 1
  /\ Count(log, "applyOptions") >= 2
  /\ Count(log, "debouncedRender") >= 3
  /\ log[Len(log)] = <<"debouncedRender">>

\* the node is attached under the node registered for the parent of id (the
\* screen, for a root ID)
AttachedUnderParentOf(n, id) ==
  /\ widgets[n].parent = (IF Len(id) = 1 THEN SCREEN ELSE blessedNodes[parentID(id)])
  /\ \E k \in DOMAIN kids[widgets[n].parent] : kids[widgets[n].parent][k] = n

\* C18: between operations, after an aborted pass too, a node the components
\* created is attached to a parent if and only if the registry holds it
\* under the ID of its component, and then it is attached to the node
\* registered for the parent ID.
C18_AttachedIffRegistered ==
  \A n \in DOMAIN widgets :
    /\ (widgets[n].parent # -1) <=> (IDOf(n) # NullID)
    /\ IDOf(n) # NullID =>
         /\ IDOf(n) = inst[widgets[n].by].rootNodeID
         /\ Cardinality({id \in DOMAIN blessedNodes : blessedNodes[id] = n}) = 1
         /\ Len(IDOf(n)) > 1 => parentID(IDOf(n)) \in DOMAIN blessedNodes
         /\ AttachedUnderParentOf(n, IDOf(n))
    /\ IDOf(n) = NullID =>
         \A p \in DOMAIN kids : \A k \in DOMAIN kids[p] : kids[p][k] # n

\* after a pass aborted by an unknown type: a node still attached and
\* registered, and a node of an unmounted component, detached and dropped
C18_Witness ==
  /\ Aborted
  /\ \E n \in DOMAIN widgets : IDOf(n) # NullID /\ widgets[n].parent # -1
  /\ \E n \in DOMAIN widgets : IDOf(n) = NullID /\ widgets[n].parent = -1

====
